---- MODULE Spec2Model ----
(***************************************************************************)
(* The interactive table of samply/file-table (src/src/table.rs) as a      *)
(* state machine: the signals of the Table component are the variables,    *)
(* every event handler of the component is one action, and the memo        *)
(* filtered_data is an operator over the signals.                          *)
(*                                                                         *)
(* Strings are sequences of one-character strings, so that to_lowercase,   *)
(* contains and the byte order of String are computed, not assumed.        *)
(* Indices are 0-based as in the source; Sequences are 1-based, so a       *)
(* source index i addresses element i+1.                                   *)
(***************************************************************************)
EXTENDS Integers, Sequences, FiniteSets, TLC

\* ------------------------------------------------------------------ bounds
\* Number of rows of the data prop taken from RowPool.
MaxRows == 3

\* ----------------------------------------------------------------- strings
UpperChars == <<"A","B","C","D","E","F","G","H","I","J","K","L","M",
                "N","O","P","Q","R","S","T","U","V","W","X","Y","Z">>
LowerChars == <<"a","b","c","d","e","f","g","h","i","j","k","l","m",
                "n","o","p","q","r","s","t","u","v","w","x","y","z">>
\* The characters of the model in byte order (space, '-', digits, upper, lower).
ByteOrder == <<" ", "-", "0","1","2","3","4","5","6","7","8","9">>
             \o UpperChars \o LowerChars

IndexOf(seq, x) == CHOOSE k \in 1..Len(seq) : seq[k] = x

char_to_lowercase(c) ==
    IF \E k \in 1..Len(UpperChars) : UpperChars[k] = c
    THEN LowerChars[IndexOf(UpperChars, c)]
    ELSE c

\* str::to_lowercase
to_lowercase(s) == [k \in 1..Len(s) |-> char_to_lowercase(s[k])]

\* str::contains(&str): pat occurs in s as a contiguous substring.
contains(s, pat) ==
    \E k \in 0..(Len(s) - Len(pat)) : SubSeq(s, k + 1, k + Len(pat)) = pat

byte(c) == IndexOf(ByteOrder, c)

\* Ord for String: lexicographic on bytes, a proper prefix is smaller.
RECURSIVE str_le(_, _)
str_le(a, b) ==
    IF a = <<>> THEN TRUE
    ELSE IF b = <<>> THEN FALSE
    ELSE IF byte(Head(a)) < byte(Head(b)) THEN TRUE
    ELSE IF byte(Head(a)) > byte(Head(b)) THEN FALSE
    ELSE str_le(Tail(a), Tail(b))

\* --------------------------------------------------------------- the props
\* TableProps.columns as PatientTable builds it: the first column hidden,
\* one categorical column, one plain column.
columns ==
    << [name |-> "Name",       categorical |-> FALSE, hidden |-> TRUE],
       [name |-> "Gender",     categorical |-> TRUE,  hidden |-> FALSE],
       [name |-> "Birth Date", categorical |-> FALSE, hidden |-> FALSE] >>

NumColumns == Len(columns)

JaneDoe  == <<"J","a","n","e"," ","D","o","e">>
AdamRoe  == <<"A","d","a","m"," ","R","o","e">>
MaryJane == <<"M","A","R","Y"," ","J","A","N","E">>
EveMale  == <<"E","v","e">>
female   == <<"f","e","m","a","l","e">>
male     == <<"m","a","l","e">>
Date1990 == <<"1","9","9","0","-","0","5","-","0","1">>
Date1985 == <<"1","9","8","5","-","1","2","-","3","1">>

RowPool ==
    << <<JaneDoe,  female, Date1990>>,
       <<AdamRoe,  male,   Date1985>>,
       <<MaryJane, female, Date1990>>,
       <<EveMale,  male,   Date1990>> >>

\* TableProps.data: one row per patient, one cell per column.
data == SubSeq(RowPool, 1, IF MaxRows < Len(RowPool) THEN MaxRows ELSE Len(RowPool))

\* Texts the user types into the global search box.
SearchInputs == { <<>>, <<"j","a","n","e">>, <<"x","y","z">> }
\* Texts the user types into a column's filter box.
FilterInputs == { <<>>, <<"M","a">> }

\* ------------------------------------------------------------------- state
VARIABLES
    search_text,             \* global search text
    custom_columns,          \* names of the visible columns, in display order
    sort_by,                 \* name of the sort column
    sort_ascending,          \* sort direction
    column_search_text,      \* per column (position in columns): text filter
    column_category_filter,  \* per column (position in columns): accepted values
    drag_state,              \* DragState
    mouse,                   \* pointer: "up", "down", "drag", "dropped"
    press,                   \* where the button went down: [origin, col]
    last_op,                 \* the column operation that ran last, with its arguments
    detail,                  \* what the last ondetail call received and showed
    server_response,         \* what the FHIR server answers to $everything
    patient_details,         \* PatientView's server future: None, Some(Ok) or Some(Err)
    route,                   \* the Route the router shows
    id_signal,               \* PatientView's signal id, None while it is not mounted
    patients,                \* PatientTable's server future: None, Some(Ok) or Some(Err)
    codeable_concept,        \* a CodeableConcept of some resource
    concept_out              \* what the last operation on codeable_concept gave

table_vars == << search_text, custom_columns, sort_by, sort_ascending,
                 column_search_text, column_category_filter, drag_state,
                 mouse, press, last_op, detail >>

fhir_vars == << server_response, patient_details, route, id_signal, patients,
               codeable_concept, concept_out >>

vars == << table_vars, fhir_vars >>

\* ---------------------------------------------------------- FHIR resources
\* Option<T>: None is the empty tuple, Some(x) the tuple of x.
None == <<>>
Some(x) == <<x>>
is_some(o) == o # None
unwrap(o) == o[1]

\* Option::or
option_or(a, b) == IF is_some(a) THEN a ELSE b

\* Timestamps are instants counted in ticks; TicksPerDay of them make one
\* calendar day of the system time zone.
TicksPerDay == 2

\* timestamp.to_zoned(TimeZone::system()).date()
local_date(timestamp) == timestamp \div TicksPerDay

\* One entry's "resource" object as the server sends it (JSON): resourceType and
\* the fields the timeline reads; an absent field is None.
Json(resourceType, id, period, recordedDate, performedDateTime, performedPeriod, effectiveDateTime) ==
    [resourceType |-> resourceType, id |-> id, period |-> period,
     recordedDate |-> recordedDate, performedDateTime |-> performedDateTime,
     performedPeriod |-> performedPeriod, effectiveDateTime |-> effectiveDateTime]

Period(start) == [start |-> start]

\* The resources the server may send.
JsonPool ==
    { Json("Patient", 1, None, None, None, None, None),
      Json("Patient", 2, None, None, None, None, None),
      Json("Encounter", 3, None, None, None, None, None),
      Json("Encounter", 4, Some(Period(None)), None, None, None, None),
      Json("Encounter", 5, Some(Period(Some(3))), None, None, None, None),
      Json("Condition", 6, None, None, None, None, None),
      Json("Condition", 7, None, Some(2), None, None, None),
      Json("Procedure", 8, None, None, None, None, None),
      Json("Procedure", 9, None, None, Some(2), None, None),
      Json("Procedure", 10, None, None, Some(3), Some(Period(Some(1))), None),
      Json("Procedure", 14, None, None, Some(2), Some(Period(None)), None),
      Json("Observation", 11, None, None, None, None, None),
      Json("Observation", 12, None, None, None, None, Some(1)),
      Json("Medication", 13, None, None, None, None, Some(1)) }

\* Result<T, E>
Ok(value) == [is_ok |-> TRUE, value |-> value]
Err(error) == [is_ok |-> FALSE, error |-> error]

\* The variants of Resource; Unknown is a unit variant and keeps no field.
Patient(id) == [variant |-> "Patient", id |-> id]
Encounter(id, period) == [variant |-> "Encounter", id |-> id, period |-> period]
Condition(id, recorded_date) ==
    [variant |-> "Condition", id |-> id, recorded_date |-> recorded_date]
Procedure(id, performed_date_time, performed_period) ==
    [variant |-> "Procedure", id |-> id,
     performed_date_time |-> performed_date_time,
     performed_period |-> performed_period]
Observation(id, effective_date_time) ==
    [variant |-> "Observation", id |-> id,
     effective_date_time |-> effective_date_time]
Unknown == [variant |-> "Unknown"]

\* Deserialize for Resource with an unknown resourceType made an error, as an
\* enum without #[serde(other)] does.
deserialize_resource_closed(json) ==
    CASE json.resourceType = "Patient" -> Ok(Patient(json.id))
      [] json.resourceType = "Encounter" -> Ok(Encounter(json.id, json.period))
      [] json.resourceType = "Condition" ->
            IF is_some(json.recordedDate)
            THEN Ok(Condition(json.id, unwrap(json.recordedDate)))
            ELSE Err("missing field recordedDate")
      [] json.resourceType = "Procedure" ->
            Ok(Procedure(json.id, json.performedDateTime, json.performedPeriod))
      [] json.resourceType = "Observation" ->
            IF is_some(json.effectiveDateTime)
            THEN Ok(Observation(json.id, unwrap(json.effectiveDateTime)))
            ELSE Err("missing field effectiveDateTime")
      [] OTHER -> Err("unknown variant")

\* Deserialize for Resource, #[serde(tag = "resourceType")]: the tag selects the
\* variant, whose struct is then read (a field that is not an Option must be
\* there); any other tag gives the #[serde(other)] variant Unknown.
deserialize_resource(json) ==
    CASE json.resourceType = "Patient" -> Ok(Patient(json.id))
      [] json.resourceType = "Encounter" -> Ok(Encounter(json.id, json.period))
      [] json.resourceType = "Condition" ->
            IF is_some(json.recordedDate)
            THEN Ok(Condition(json.id, unwrap(json.recordedDate)))
            ELSE Err("missing field recordedDate")
      [] json.resourceType = "Procedure" ->
            Ok(Procedure(json.id, json.performedDateTime, json.performedPeriod))
      [] json.resourceType = "Observation" ->
            IF is_some(json.effectiveDateTime)
            THEN Ok(Observation(json.id, unwrap(json.effectiveDateTime)))
            ELSE Err("missing field effectiveDateTime")
      [] OTHER -> Ok(Unknown)

\* Deserialize for MixedBundle: the entries in order; the first entry that
\* fails makes the whole bundle fail.
deserialize_bundle(body) ==
    LET parsed == [k \in 1..Len(body) |-> deserialize_resource(body[k])]
    IN  IF \E k \in 1..Len(body) : ~parsed[k].is_ok
        THEN Err("error decoding response body")
        ELSE Ok([entry |-> [k \in 1..Len(body) |-> [resource |-> parsed[k].value]]])

\* find_map taking the last Patient entry instead of the first.
find_patient_last(bundle) ==
    LET at == {k \in 1..Len(bundle.entry) : bundle.entry[k].resource.variant = "Patient"}
    IN  IF at = {} THEN None
        ELSE Some(bundle.entry[CHOOSE k \in at : \A m \in at : m <= k].resource)

\* bundle.entry.iter().find_map(..): the first entry whose resource is a Patient.
find_patient(bundle) ==
    LET at == {k \in 1..Len(bundle.entry) : bundle.entry[k].resource.variant = "Patient"}
    IN  IF at = {} THEN None
        ELSE Some(bundle.entry[CHOOSE k \in at : \A m \in at : k <= m].resource)

\* What the FHIR server answers: no answer (connection error), a status that is
\* not 2xx, a body that is not JSON, or a bundle of entries.
Unreachable == [kind |-> "unreachable", body |-> <<>>]
ErrorStatus == [kind |-> "status", body |-> <<>>]
NotJson == [kind |-> "not json", body |-> <<>>]
BundleBody(body) == [kind |-> "bundle", body |-> body]

\* The server function get_patient_details, given the server's answer.
get_patient_details(response) ==
    CASE response.kind = "unreachable" -> Err("error sending request")
      [] response.kind = "status" -> Err("HTTP status client error")
      [] response.kind = "not json" -> Err("error decoding response body")
      [] OTHER ->
            LET bundle == deserialize_bundle(response.body)
            IN  IF ~bundle.is_ok THEN bundle
                ELSE LET patient == find_patient(bundle.value)
                     IN  IF patient = None THEN Err("No patient found")
                         ELSE Ok([patient |-> unwrap(patient), bundle |-> bundle.value])

\* ------------------------------------------------------------ the timeline
\* timeline_event with the Observation arm left out.
timeline_event_without_observation(resource) ==
    IF resource.variant \in {"Encounter", "Condition", "Procedure"}
    THEN Some(resource)
    ELSE None

\* Resource::timeline_event: the resource as a TimelineEvent, for the four
\* clinical variants only.
timeline_event(resource) ==
    IF resource.variant \in {"Encounter", "Condition", "Procedure", "Observation"}
    THEN Some(resource)
    ELSE None

\* TimelineEvent::timestamp with Procedure's two sources in the other order.
timestamp_date_time_first(event) ==
    CASE event.variant = "Encounter" ->
            IF is_some(event.period) THEN unwrap(event.period).start ELSE None
      [] event.variant = "Condition" -> Some(event.recorded_date)
      [] event.variant = "Procedure" ->
            option_or(event.performed_date_time,
                      IF is_some(event.performed_period)
                      THEN unwrap(event.performed_period).start
                      ELSE None)
      [] event.variant = "Observation" -> Some(event.effective_date_time)

\* TimelineEvent::timestamp of the four implementations.
timestamp(event) ==
    CASE event.variant = "Encounter" ->
            IF is_some(event.period) THEN unwrap(event.period).start ELSE None
      [] event.variant = "Condition" -> Some(event.recorded_date)
      [] event.variant = "Procedure" ->
            option_or(IF is_some(event.performed_period)
                      THEN unwrap(event.performed_period).start
                      ELSE None,
                      event.performed_date_time)
      [] event.variant = "Observation" -> Some(event.effective_date_time)

\* Resource::timeline_timestamp: the timestamp of the resource's timeline
\* event, None when it has no timeline event or the event has no timestamp.
timeline_timestamp(resource) ==
    IF is_some(timeline_event(resource))
    THEN timestamp(unwrap(timeline_event(resource)))
    ELSE None

\* .filter_map(|e| e.resource.timeline_timestamp().map(|t| (e, t))): the entries
\* with a timestamp, in bundle order, each with its position in bundle.entry.
timeline_entries(bundle) ==
    LET pairs == [k \in 1..Len(bundle.entry) |->
                     [index |-> k - 1, entry |-> bundle.entry[k],
                      timestamp |-> timeline_timestamp(bundle.entry[k].resource)]]
        kept == SelectSeq(pairs, LAMBDA e : is_some(e.timestamp))
    IN  [k \in 1..Len(kept) |->
            [index |-> kept[k].index, entry |-> kept[k].entry,
             timestamp |-> unwrap(kept[k].timestamp)]]

\* A sort step that puts e before the elements with the same timestamp.
timestamp_insert_before_equal(sorted, e) ==
    LET n == Cardinality({k \in 1..Len(sorted) : sorted[k].timestamp < e.timestamp})
    IN  SubSeq(sorted, 1, n) \o <<e>> \o SubSeq(sorted, n + 1, Len(sorted))

\* One step of the stable sort: e goes behind every element whose timestamp is
\* not later than its own.
timestamp_insert(sorted, e) ==
    LET n == Cardinality({k \in 1..Len(sorted) : sorted[k].timestamp <= e.timestamp})
    IN  SubSeq(sorted, 1, n) \o <<e>> \o SubSeq(sorted, n + 1, Len(sorted))

\* .sorted_by_key(|(_, t)| t.clone()), a stable sort.
RECURSIVE sorted_by_timestamp(_)
sorted_by_timestamp(entries) ==
    IF entries = <<>> THEN <<>>
    ELSE timestamp_insert(sorted_by_timestamp(SubSeq(entries, 1, Len(entries) - 1)),
                          entries[Len(entries)])

\* Itertools::circular_tuple_windows for pairs: as many windows as elements,
\* the last one pairing the last element with the first.
circular_tuple_windows(s) ==
    [k \in 1..Len(s) |-> <<s[k], s[(k % Len(s)) + 1]>>]

\* The day heading's condition with "differs" in place of "is later".
day_changes_any_direction(this_timestamp, next_timestamp) ==
    local_date(next_timestamp) # local_date(this_timestamp)

\* The condition of the day heading: the next entry's local date is later.
day_changes(this_timestamp, next_timestamp) ==
    local_date(next_timestamp) > local_date(this_timestamp)

\* The loop body with the match's Observation arm missing.
render_window_without_observation(window) ==
    LET this == window[1]
        next == window[2]
        card == IF this.entry.resource.variant
                      \in {"Encounter", "Condition", "Procedure"}
                THEN [kind |-> "card", index |-> this.index,
                      variant |-> this.entry.resource.variant,
                      timestamp |-> this.timestamp]
                ELSE [kind |-> "unreachable"]
    IN  IF day_changes(this.timestamp, next.timestamp)
        THEN <<card, [kind |-> "heading", date |-> local_date(next.timestamp)]>>
        ELSE <<card>>

\* What the loop body renders for one window: the entry's card (the match on
\* entry.resource) and, on a day change, the heading with the next date.
render_window(window) ==
    LET this == window[1]
        next == window[2]
        card == IF this.entry.resource.variant
                      \in {"Encounter", "Condition", "Procedure", "Observation"}
                THEN [kind |-> "card", index |-> this.index,
                      variant |-> this.entry.resource.variant,
                      timestamp |-> this.timestamp]
                ELSE [kind |-> "unreachable"]
    IN  IF day_changes(this.timestamp, next.timestamp)
        THEN <<card, [kind |-> "heading", date |-> local_date(next.timestamp)]>>
        ELSE <<card>>

RECURSIVE render_windows(_)
render_windows(windows) ==
    IF windows = <<>> THEN <<>>
    ELSE render_window(windows[1]) \o render_windows(SubSeq(windows, 2, Len(windows)))

\* The "Patient Timeline" part of PatientView for a loaded bundle.
render_timeline(bundle) ==
    render_windows(circular_tuple_windows(sorted_by_timestamp(timeline_entries(bundle))))

\* ------------------------------------------------- Coding, CodeableConcept
Coding(system, code, display, user_selected) ==
    [system |-> system, code |-> code, display |-> display,
     user_selected |-> user_selected]

CodeableConcept(coding, text) == [coding |-> coding, text |-> text]

\* Strings are tuples of characters.
SystemA == <<"A">>
SystemB == <<"B">>
CodingPool ==
    { Coding(Some(SystemA), Some(<<"c", "1">>), Some(<<"d", "1">>), None),
      Coding(Some(SystemA), Some(<<"c", "2">>), None, None),
      Coding(Some(SystemA), None, Some(<<"d", "2">>), None),
      Coding(Some(SystemB), Some(<<"c", "1">>), None, Some(TRUE)),
      Coding(None, Some(<<"c", "2">>), Some(<<"d", "1">>), None),
      Coding(Some(SystemB), None, None, Some(FALSE)) }

\* Option::unwrap_or_default for strings.
unwrap_or_default(o) == IF is_some(o) THEN unwrap(o) ELSE <<>>

\* [String]::join
RECURSIVE join(_, _)
join(strings, separator) ==
    IF strings = <<>> THEN <<>>
    ELSE IF Len(strings) = 1 THEN strings[1]
    ELSE strings[1] \o separator \o join(SubSeq(strings, 2, Len(strings)), separator)

\* .iter().flatten() of an Option<Vec<T>>: the elements, none for None.
flatten(o) == IF is_some(o) THEN unwrap(o) ELSE <<>>

\* Display for Coding: the display, else the code, else nothing.
coding_to_string(coding) ==
    IF is_some(coding.display) THEN unwrap(coding.display)
    ELSE unwrap_or_default(coding.code)

\* Display for CodeableConcept: the text, else the codings joined by ", ".
concept_to_string(concept) ==
    IF is_some(concept.text) THEN unwrap(concept.text)
    ELSE join([k \in 1..Len(flatten(concept.coding)) |->
                  coding_to_string(flatten(concept.coding)[k])],
              <<",", " ">>)

\* code_in_system looking at the last matching coding.
code_in_system_last_match(concept, system) ==
    IF concept.coding = None THEN None
    ELSE LET coding == unwrap(concept.coding)
             at == {k \in 1..Len(coding) : coding[k].system = Some(system)}
         IN  IF at = {} THEN None
             ELSE coding[CHOOSE k \in at : \A m \in at : m <= k].code

\* CodeableConcept::code_in_system: None for a null coding list (the ?), else
\* the code of the first coding found with that system (its code may be None).
code_in_system(concept, system) ==
    IF concept.coding = None THEN None
    ELSE LET coding == unwrap(concept.coding)
             at == {k \in 1..Len(coding) : coding[k].system = Some(system)}
         IN  IF at = {} THEN None
             ELSE coding[CHOOSE k \in at : \A m \in at : k <= m].code

\* Ord for Option<bool>: None < Some(false) < Some(true).
user_selected_rank(o) == IF o = None THEN 0 ELSE IF unwrap(o) THEN 2 ELSE 1

\* .sorted_by_key(|c| c.user_selected), a stable sort.
RECURSIVE sorted_by_user_selected(_)
sorted_by_user_selected(codings) ==
    IF codings = <<>> THEN <<>>
    ELSE LET init == sorted_by_user_selected(SubSeq(codings, 1, Len(codings) - 1))
             e == codings[Len(codings)]
             n == Cardinality({k \in 1..Len(init) :
                     user_selected_rank(init[k].user_selected)
                         <= user_selected_rank(e.user_selected)})
         IN  SubSeq(init, 1, n) \o <<e>> \o SubSeq(init, n + 1, Len(init))

\* Iterator::rev
rev(s) == [k \in 1..Len(s) |-> s[Len(s) + 1 - k]]

\* The component CodeableConcept: the text it shows and the chips behind it,
\* one per coding with the coding's code.
CodeableConceptComponent(concept) ==
    LET codings == rev(sorted_by_user_selected(flatten(concept.coding)))
        first_text == IF codings = <<>> THEN None
                      ELSE option_or(codings[1].display, codings[1].code)
        text == unwrap_or_default(option_or(concept.text, first_text))
    IN  [text |-> text,
         chips |-> [k \in 1..Len(codings) |-> unwrap_or_default(codings[k].code)]]

\* ------------------------------------------------- From<RawCoding> for Coding
\* HashMap::get
get(map, key) == IF key \in DOMAIN map THEN Some(map[key]) ELSE None

\* From<RawCoding> for Coding, on the server: with a code and a system the
\* display becomes the code map's entry for them, or stays what it was when
\* the map has none (.or(display)); the other fields are kept.
from_raw_coding(raw, code_maps) ==
    LET by_system == IF is_some(raw.code) /\ is_some(raw.system)
                     THEN get(code_maps, unwrap(raw.system))
                     ELSE None
        looked_up == IF is_some(by_system)
                     THEN get(unwrap(by_system), unwrap(raw.code))
                     ELSE None
    IN  Coding(raw.system, raw.code,
               IF is_some(raw.code) /\ is_some(raw.system)
               THEN option_or(looked_up, raw.display)
               ELSE raw.display,
               raw.user_selected)

\* ------------------------------------------------ Condition's status chip
Chip(class, text) == [class |-> class, text |-> text]

\* The code system of Condition.clinicalStatus and the words of its value set;
\* a word is written as a string of one symbol.
ConditionClinical == <<"http://terminology.hl7.org/CodeSystem/condition-clinical">>

\* clinical_status_chip taking the code of the first coding, whatever its system.
clinical_status_chip_any_system(clinical_status) ==
    IF clinical_status = None THEN None
    ELSE LET coding == flatten(unwrap(clinical_status).coding)
             code == IF coding = <<>> THEN None ELSE coding[1].code
         IN  IF code = None THEN None
             ELSE CASE unwrap(code) = <<"active">> ->
                         Some(Chip("bg-yellow-100 border-yellow-500", "Active"))
                    [] unwrap(code) = <<"recurrence">> ->
                         Some(Chip("bg-yellow-100 border-yellow-500", "Recurrence"))
                    [] unwrap(code) = <<"relapse">> ->
                         Some(Chip("bg-yellow-100 border-yellow-500", "Relapse"))
                    [] unwrap(code) = <<"inactive">> ->
                         Some(Chip("bg-gray-100 border-gray-500", "Inactive"))
                    [] unwrap(code) = <<"remission">> ->
                         Some(Chip("bg-green-100 border-green-500", "Remission"))
                    [] unwrap(code) = <<"resolved">> ->
                         Some(Chip("bg-green-100 border-green-500", "Resolved"))
                    [] OTHER -> None

\* Condition::clinical_status_chip: None without clinicalStatus (the first ?),
\* None when code_in_system gives None (the second ?), else the chip of the code,
\* None for a code that is not one of the six.
clinical_status_chip(clinical_status) ==
    IF clinical_status = None THEN None
    ELSE LET code == code_in_system(unwrap(clinical_status), ConditionClinical)
         IN  IF code = None THEN None
             ELSE CASE unwrap(code) = <<"active">> ->
                         Some(Chip("bg-yellow-100 border-yellow-500", "Active"))
                    [] unwrap(code) = <<"recurrence">> ->
                         Some(Chip("bg-yellow-100 border-yellow-500", "Recurrence"))
                    [] unwrap(code) = <<"relapse">> ->
                         Some(Chip("bg-yellow-100 border-yellow-500", "Relapse"))
                    [] unwrap(code) = <<"inactive">> ->
                         Some(Chip("bg-gray-100 border-gray-500", "Inactive"))
                    [] unwrap(code) = <<"remission">> ->
                         Some(Chip("bg-green-100 border-green-500", "Remission"))
                    [] unwrap(code) = <<"resolved">> ->
                         Some(Chip("bg-green-100 border-green-500", "Resolved"))
                    [] OTHER -> None

\* ------------------------------------------------ PatientView and its inputs
MaxEntries == 3
MaxCodings == 2

\* Every sequence over S of at most n elements.
SeqsUpTo(S, n) == UNION {[1..m -> S] : m \in 0..n}

\* The answers of the FHIR server to GET Patient/{id}/$everything.
Responses ==
    {Unreachable, ErrorStatus, NotJson}
        \cup {BundleBody(body) : body \in SeqsUpTo(JsonPool, MaxEntries)}

\* The CodeableConcepts a resource may carry.
Concepts ==
    {CodeableConcept(coding, text) :
        coding \in {None} \cup {Some(c) : c \in SeqsUpTo(CodingPool, MaxCodings)},
        text \in {None, Some(<<"t">>)}}

Systems == {SystemA, SystemB, <<"C">>}

\* The code maps the server may have loaded: system -> code -> display.
CodeMaps ==
    { <<>>,
      (SystemA :> (<<"c", "1">> :> <<"m", "1">>)),
      (SystemA :> (<<"c", "2">> :> <<"m", "2">>))
          @@ (SystemB :> (<<"c", "1">> :> <<"m", "3">>)) }

\* The codings a Condition's clinicalStatus may carry: the six codes of the
\* value set, a code outside it and no code in the clinical-status system, and
\* codes of the value set under another system and under no system.
ClinicalCodingPool ==
    { Coding(Some(ConditionClinical), Some(<<"active">>), None, None),
      Coding(Some(ConditionClinical), Some(<<"recurrence">>), None, None),
      Coding(Some(ConditionClinical), Some(<<"relapse">>), None, None),
      Coding(Some(ConditionClinical), Some(<<"inactive">>), None, None),
      Coding(Some(ConditionClinical), Some(<<"remission">>), None, None),
      Coding(Some(ConditionClinical), Some(<<"resolved">>), None, None),
      Coding(Some(ConditionClinical), Some(<<"unknown">>), None, None),
      Coding(Some(ConditionClinical), None, Some(<<"d", "1">>), None),
      Coding(Some(SystemA), Some(<<"resolved">>), None, None),
      Coding(None, Some(<<"inactive">>), None, None) }

\* Condition.clinical_status: Option<CodeableConcept>.
ClinicalStatuses ==
    {None} \cup
    {Some(CodeableConcept(coding, None)) :
        coding \in {None} \cup {Some(c) : c \in SeqsUpTo(ClinicalCodingPool, MaxCodings)}}

\* The ids of the patients of the table.
PatientIds == {"p1", "p2"}

\* enum Route
PatientTableRoute == [variant |-> "PatientTable"]
PatientViewRoute(patient_id) == [variant |-> "PatientView", id |-> patient_id]

\* What the FHIR server answers to GET Patient: as for one patient, the bundle
\* being the one whose patients give the table's rows.
PatientList == [kind |-> "patients", body |-> <<>>]
PatientsResponses == {Unreachable, ErrorStatus, NotJson, PatientList}

\* The server function get_patients, given the server's answer.
get_patients(response) ==
    CASE response.kind = "unreachable" -> Err("error sending request")
      [] response.kind = "status" -> Err("HTTP status client error")
      [] response.kind = "not json" -> Err("error decoding response body")
      [] OTHER -> Ok(data)

\* No PatientView is mounted, no concept is looked at.
NoRequest == [kind |-> "none", body |-> <<>>]
NoConcept == CodeableConcept(None, None)
NoOut == [op |-> "none", system |-> <<>>, value |-> None]

\* PatientTable is shown with its patients loaded.
FhirIdle ==
    /\ server_response = NoRequest
    /\ patient_details = None
    /\ route = PatientTableRoute
    /\ id_signal = None
    /\ patients = Some(Ok(data))
    /\ codeable_concept = NoConcept
    /\ concept_out = NoOut

\* ondetail of the loaded table: navigator().push(Route::PatientView { id }).
\* PatientTable is unmounted and its future dropped, PatientView is mounted,
\* use_signal(|| id) takes the id and use_server_future starts, patient_details
\* is None ("Loading..."); response is what the FHIR server will answer.
OpenPatient(patient_id, response) ==
    /\ route = PatientTableRoute
    /\ patients # None
    /\ unwrap(patients).is_ok
    /\ route' = PatientViewRoute(patient_id)
    /\ id_signal' = Some(patient_id)
    /\ patients' = None
    /\ server_response' = response
    /\ patient_details' = None
    /\ UNCHANGED << table_vars, codeable_concept, concept_out >>

\* The server function returns and the future resolves.
GetPatientDetails ==
    /\ server_response # NoRequest
    /\ patient_details = None
    /\ patient_details' = Some(get_patient_details(server_response))
    /\ UNCHANGED << table_vars, server_response, route, id_signal, patients,
                    codeable_concept, concept_out >>

\* The router goes from PatientView to PatientTable: PatientView is unmounted
\* and its future dropped, resolved or not; PatientTable is mounted and its
\* use_server_future starts ("Loading...").
ClosePatient ==
    /\ route.variant = "PatientView"
    /\ route' = PatientTableRoute
    /\ id_signal' = None
    /\ patients' = None
    /\ server_response' = NoRequest
    /\ patient_details' = None
    /\ UNCHANGED << table_vars, codeable_concept, concept_out >>

\* The server function get_patients returns and PatientTable's future resolves.
GetPatients(response) ==
    /\ route = PatientTableRoute
    /\ patients = None
    /\ patients' = Some(get_patients(response))
    /\ UNCHANGED << table_vars, server_response, patient_details, route, id_signal,
                    codeable_concept, concept_out >>

\* The router goes from PatientView { id } to PatientView { id: patient_id }
\* (the browser's history): the component is the same at the same place, so it
\* is rendered again with the new prop and keeps its hooks: use_signal(|| id)
\* does not run its initialiser again and use_server_future, which reads only
\* that signal, does not start again.
NavigatePatient(patient_id) ==
    /\ route.variant = "PatientView"
    /\ route.id # patient_id
    /\ route' = PatientViewRoute(patient_id)
    /\ UNCHANGED << table_vars, server_response, patient_details, id_signal, patients,
                    codeable_concept, concept_out >>

\* PatientView rendering a failed future as a pending one.
PatientView_error_as_loading ==
    IF patient_details = None \/ ~unwrap(patient_details).is_ok
    THEN [kind |-> "loading"]
    ELSE [kind |-> "details",
          patient |-> unwrap(patient_details).value.patient,
          timeline |-> render_timeline(unwrap(patient_details).value.bundle)]

\* What PatientView renders for the state of its future.
PatientView ==
    IF patient_details = None THEN [kind |-> "loading"]
    ELSE IF unwrap(patient_details).is_ok
    THEN [kind |-> "details",
          patient |-> unwrap(patient_details).value.patient,
          timeline |-> render_timeline(unwrap(patient_details).value.bundle)]
    ELSE [kind |-> "error", message |-> unwrap(patient_details).error]

\* What PatientTable renders for the state of its future.
PatientTable ==
    IF patients = None THEN [kind |-> "loading"]
    ELSE IF unwrap(patients).is_ok
    THEN [kind |-> "table", data |-> unwrap(patients).value]
    ELSE [kind |-> "error", message |-> unwrap(patients).error]

\* One patient's view opened and closed, with every answer of the server.
NextPatient ==
    \/ /\ route = PatientTableRoute
       /\ \E response \in Responses : OpenPatient("p1", response)
    \/ GetPatientDetails
    \/ ClosePatient
    \/ \E response \in PatientsResponses : GetPatients(response)

\* The answers of the FHIR server looked at under navigation.
MaxNavigateEntries == 1
NavigateResponses ==
    {Unreachable, ErrorStatus, NotJson}
        \cup {BundleBody(body) : body \in SeqsUpTo(JsonPool, MaxNavigateEntries)}

\* The router going between PatientTable and the views of the patients.
NextNavigate ==
    \/ /\ route = PatientTableRoute
       /\ \E patient_id \in PatientIds, response \in NavigateResponses :
              OpenPatient(patient_id, response)
    \/ GetPatientDetails
    \/ ClosePatient
    \/ \E response \in PatientsResponses : GetPatients(response)
    \/ \E patient_id \in PatientIds : NavigatePatient(patient_id)

\* A resource's CodeableConcept comes into view.
PickConcept(concept) ==
    /\ codeable_concept' = concept
    /\ concept_out' = NoOut
    /\ UNCHANGED << table_vars, server_response, patient_details, route, id_signal, patients >>

\* codeable_concept.code_in_system(system) is called.
CodeInSystem(system) ==
    /\ concept_out' = [op |-> "code_in_system", system |-> system,
                       value |-> code_in_system(codeable_concept, system)]
    /\ UNCHANGED << table_vars, server_response, patient_details, route, id_signal, patients,
                    codeable_concept >>

\* codeable_concept.to_string() is called.
CallToString ==
    /\ concept_out' = [op |-> "to_string", system |-> <<>>,
                       value |-> concept_to_string(codeable_concept)]
    /\ UNCHANGED << table_vars, server_response, patient_details, route, id_signal, patients,
                    codeable_concept >>

\* The component CodeableConcept renders codeable_concept.
RenderCodeableConcept ==
    /\ concept_out' = [op |-> "component", system |-> <<>>,
                       value |-> CodeableConceptComponent(codeable_concept)]
    /\ UNCHANGED << table_vars, server_response, patient_details, route, id_signal, patients,
                    codeable_concept >>

\* A Condition's card is rendered: condition.clinical_status_chip() is called;
\* the concept in view is the Condition's clinicalStatus, if it has one.
ClinicalStatusChip(clinical_status) ==
    /\ codeable_concept' = IF is_some(clinical_status) THEN unwrap(clinical_status)
                            ELSE NoConcept
    /\ concept_out' = [op |-> "clinical_status_chip", system |-> ConditionClinical,
                       value |-> [clinical_status |-> clinical_status,
                                  chip |-> clinical_status_chip(clinical_status)]]
    /\ UNCHANGED << table_vars, server_response, patient_details, route, id_signal, patients >>

\* The server deserializes one Coding of a resource: RawCoding is read and
\* converted; the concept in view is the one made of that Coding.
FromRawCoding(raw, code_maps) ==
    /\ codeable_concept' = CodeableConcept(Some(<<from_raw_coding(raw, code_maps)>>), None)
    /\ concept_out' = [op |-> "from_raw_coding", system |-> <<>>,
                       value |-> [raw |-> raw, code_maps |-> code_maps]]
    /\ UNCHANGED << table_vars, server_response, patient_details, route, id_signal, patients >>

NextConcept ==
    \/ \E concept \in Concepts : PickConcept(concept)
    \/ \E raw \in CodingPool, code_maps \in CodeMaps : FromRawCoding(raw, code_maps)
    \/ \E clinical_status \in ClinicalStatuses : ClinicalStatusChip(clinical_status)
    \/ \E system \in Systems : CodeInSystem(system)
    \/ CallToString
    \/ RenderCodeableConcept



\* ------------------------------------------------------------ filtered_data
\* columns.iter().position(|h| h.name == name), 0-based; -1 for None.
column_position(name) ==
    IF \E k \in 1..NumColumns : columns[k].name = name
    THEN (CHOOSE k \in 1..NumColumns :
            /\ columns[k].name = name
            /\ \A m \in 1..(k - 1) : columns[m].name # name) - 1
    ELSE -1

\* .iter().enumerate(): every row paired with its index in data.
enumerate(rows) == [k \in 1..Len(rows) |-> [id |-> k - 1, row |-> rows[k]]]

\* First .filter: some cell contains the search text, both lowercased.
global_search_match_case_sensitive(row) ==
    \E c \in 1..Len(row) : contains(row[c], to_lowercase(search_text))

global_search_match(row) ==
    LET text == to_lowercase(search_text)
    IN  \E c \in 1..Len(row) : contains(to_lowercase(row[c]), text)

\* Second .filter: every cell passes its column's text / categorical filter.
column_filter_match_text_only(row) ==
    \A c \in 1..Len(row) :
        LET filter_text == to_lowercase(column_search_text[c])
        IN  filter_text = <<>> \/ contains(to_lowercase(row[c]), filter_text)

column_filter_match(row) ==
    \A c \in 1..Len(row) :
        LET filter_text == to_lowercase(column_search_text[c])
            category_filter == column_category_filter[c]
            cell == row[c]
        IN  \/ (filter_text = <<>> /\ category_filter = {})
            \/ (filter_text # <<>> /\ contains(to_lowercase(cell), filter_text))
            \/ (category_filter # {} /\ cell \in category_filter)

\* The key of sorted_by_key: the row's cell in the sort column.
sort_key(row) ==
    LET pos == column_position(sort_by)
        idx == IF pos < 0 THEN 0 ELSE pos
    IN  IF idx < Len(row) THEN row[idx + 1] ELSE <<>>

\* One step of a stable sort: e goes behind every element whose key is <= its key.
stable_insert(sorted, e) ==
    LET n == Cardinality({k \in 1..Len(sorted) :
                            str_le(sort_key(sorted[k].row), sort_key(e.row))})
    IN  SubSeq(sorted, 1, n) \o <<e>> \o SubSeq(sorted, n + 1, Len(sorted))

\* Itertools::sorted_by_key (a stable sort).
RECURSIVE sorted_by_key(_)
sorted_by_key(entries) ==
    IF entries = <<>> THEN <<>>
    ELSE stable_insert(sorted_by_key(SubSeq(entries, 1, Len(entries) - 1)),
                       entries[Len(entries)])

\* The .map closure: the row's cells in the visible columns, in display order.
collect_custom_columns(e) ==
    [id |-> e.id,
     cells |-> [k \in 1..Len(custom_columns) |->
                    e.row[column_position(custom_columns[k]) + 1]]]

reverse(s) == [k \in 1..Len(s) |-> s[Len(s) + 1 - k]]

\* The rows that pass both filters, as (id, row) pairs in data order.
filtered_rows ==
    SelectSeq(SelectSeq(enumerate(data), LAMBDA e : global_search_match(e.row)),
              LAMBDA e : column_filter_match(e.row))

\* The memo filtered_data: the displayed rows, each [id, cells], top to bottom.
filtered_data ==
    LET sorted == sorted_by_key(filtered_rows)
        d == [k \in 1..Len(sorted) |-> collect_custom_columns(sorted[k])]
    IN  IF ~sort_ascending THEN reverse(d) ELSE d


\* --------------------------------------------------------------- DragState
DragNone        == [kind |-> "None",      dragged |-> 0, over |-> 0]
Mousedown(i)    == [kind |-> "Mousedown", dragged |-> i, over |-> 0]
Dragging(i)     == [kind |-> "Dragging",  dragged |-> i, over |-> 0]
Dragover(i, j)  == [kind |-> "Dragover",  dragged |-> i, over |-> j]

NoPress  == [origin |-> "none", col |-> 0]
NoDetail == [called |-> FALSE, id |-> 0, cells |-> <<>>, position |-> 0]
Op(name, i, j, before) == [op |-> name, i |-> i, j |-> j, before |-> before]
NoOp == Op("other", 0, 0, <<>>)

\* The initial value of custom_columns, and what "Reset Columns" sets.
default_columns ==
    LET shown == SelectSeq(columns, LAMBDA c : ~c.hidden)
    IN  [k \in 1..Len(shown) |-> shown[k].name]

\* Vec::remove(i) and Vec::insert(i, x), 0-based.
\* Vec::remove that leaves the element in place.
remove_at_keeps_element(vec, i) == vec

remove_at(vec, i) == SubSeq(vec, 1, i) \o SubSeq(vec, i + 2, Len(vec))
insert_at_index(vec, i, x) == SubSeq(vec, 1, i) \o <<x>> \o SubSeq(vec, i + 1, Len(vec))

\* The distinct cells of a column of data: the checkboxes of a categorical filter.
category_values(idx) == {data[r][idx + 1] : r \in 1..Len(data)}

\* The handlers below exist while the table is shown and react to what the
\* pointer can do: clicks need the button up, and nothing is clickable once
\* ondetail has navigated away.
Clickable == mouse = "up" /\ ~detail.called

HeaderPositions == 0..(Len(custom_columns) - 1)

Init ==
    /\ search_text = <<>>
    /\ custom_columns = default_columns
    /\ sort_by = columns[1].name
    /\ sort_ascending = TRUE
    /\ column_search_text = [c \in 1..NumColumns |-> <<>>]
    /\ column_category_filter = [c \in 1..NumColumns |-> {}]
    /\ drag_state = DragNone
    /\ mouse = "up"
    /\ press = NoPress
    /\ last_op = NoOp
    /\ detail = NoDetail
    /\ FhirIdle

\* oninput of the global search box.
SetSearchText(text) ==
    /\ Clickable
    /\ search_text' = text
    /\ last_op' = NoOp
    /\ UNCHANGED << fhir_vars, custom_columns, sort_by, sort_ascending, column_search_text,
                    column_category_filter, drag_state, mouse, press, detail >>

\* Where the checkbox handler inserts a column that becomes visible: before the
\* first visible column that comes later in the full column list.
toggle_insert_at_end(vec, pos) == Len(vec)

toggle_insert_at(vec, pos) ==
    LET later == {i \in 0..(Len(vec) - 1) :
                    column_position(vec[i + 1]) >= 0 /\ column_position(vec[i + 1]) > pos}
    IN  IF later = {} THEN Len(vec)
        ELSE CHOOSE i \in later : \A m \in later : i <= m

\* onchange of the checkbox of column c (0-based in columns) in "Customize Columns".
ToggleColumn(c) ==
    LET name == columns[c + 1].name
        present == \E k \in 1..Len(custom_columns) : custom_columns[k] = name
    IN  /\ Clickable
        /\ custom_columns' =
              IF present
              THEN SelectSeq(custom_columns, LAMBDA h : h # name)
              ELSE insert_at_index(custom_columns,
                                   toggle_insert_at(custom_columns, column_position(name)),
                                   name)
        /\ last_op' = Op("toggle", c, 0, custom_columns)
        /\ UNCHANGED << fhir_vars, search_text, sort_by, sort_ascending, column_search_text,
                        column_category_filter, drag_state, mouse, press, detail >>

\* onclick of "Reset Columns".
ResetColumns ==
    /\ Clickable
    /\ custom_columns' = default_columns
    /\ last_op' = Op("reset_columns", 0, 0, custom_columns)
    /\ UNCHANGED << fhir_vars, search_text, sort_by, sort_ascending, column_search_text,
                    column_category_filter, drag_state, mouse, press, detail >>

\* The sort button's onclick with the direction kept when the column changes.
sort_onclick_keep_direction(header) ==
    IF sort_by = header
    THEN [sort_by |-> sort_by, sort_ascending |-> ~sort_ascending]
    ELSE [sort_by |-> header, sort_ascending |-> sort_ascending]

\* The body of the sort button's onclick: the values it leaves in the signals
\* sort_by and sort_ascending.
sort_onclick(header) ==
    IF sort_by = header
    THEN [sort_by |-> sort_by, sort_ascending |-> ~sort_ascending]
    ELSE [sort_by |-> header, sort_ascending |-> TRUE]

\* onclick of the sort button of the header at display position i.
SortClick(i) ==
    LET header == custom_columns[i + 1]
    IN  /\ Clickable
        /\ i \in HeaderPositions
        /\ sort_by' = sort_onclick(header).sort_by
        /\ sort_ascending' = sort_onclick(header).sort_ascending
        /\ last_op' = NoOp
        /\ UNCHANGED << fhir_vars, search_text, custom_columns, column_search_text,
                        column_category_filter, drag_state, mouse, press, detail >>

\* The header's idx taken to be its display position.
header_idx_display_position(i) == i

\* idx of the header loop: the position in columns of the column shown at
\* display position i.
header_idx(i) == column_position(custom_columns[i + 1])

\* oninput of the filter box of the header at display position i.
SetColumnFilter(i, text) ==
    /\ Clickable
    /\ i \in HeaderPositions
    /\ LET idx == header_idx(i)
       IN  column_search_text' = [column_search_text EXCEPT ![idx + 1] = text]
    /\ last_op' = NoOp
    /\ UNCHANGED << fhir_vars, search_text, custom_columns, sort_by, sort_ascending,
                    column_category_filter, drag_state, mouse, press, detail >>

\* onchange of the checkbox of value in the filter popover of header i.
ToggleCategory(i, value) ==
    /\ Clickable
    /\ i \in HeaderPositions
    /\ LET idx == header_idx(i)
           filter == column_category_filter[idx + 1]
       IN  /\ columns[idx + 1].categorical
           /\ value \in category_values(idx)
           /\ column_category_filter' =
                 [column_category_filter EXCEPT
                    ![idx + 1] = IF value \in filter THEN filter \ {value}
                                                      ELSE filter \cup {value}]
    /\ last_op' = NoOp
    /\ UNCHANGED << fhir_vars, search_text, custom_columns, sort_by, sort_ascending,
                    column_search_text, drag_state, mouse, press, detail >>

\* onclick of "Reset Filter" in the filter popover of header i.
ResetFilter(i) ==
    /\ Clickable
    /\ i \in HeaderPositions
    /\ LET idx == header_idx(i)
       IN  /\ column_search_text' = [column_search_text EXCEPT ![idx + 1] = <<>>]
           /\ column_category_filter' = [column_category_filter EXCEPT ![idx + 1] = {}]
    /\ last_op' = NoOp
    /\ UNCHANGED << fhir_vars, search_text, custom_columns, sort_by, sort_ascending,
                    drag_state, mouse, press, detail >>


\* ----------------------------------------------------------- drag and drop
\* onmousedown of the drag handle of the header at display position i.
HandleMouseDown(i) ==
    /\ Clickable
    /\ i \in HeaderPositions
    /\ drag_state' = Mousedown(i)
    /\ mouse' = "down"
    /\ press' = [origin |-> "handle", col |-> i]
    /\ last_op' = NoOp
    /\ UNCHANGED << fhir_vars, search_text, custom_columns, sort_by, sort_ascending,
                    column_search_text, column_category_filter, detail >>

\* The button goes down on header i outside its drag handle (on the header
\* text): no handler is registered for that.
HeaderTextMouseDown(i) ==
    /\ Clickable
    /\ i \in HeaderPositions
    /\ mouse' = "down"
    /\ press' = [origin |-> "text", col |-> i]
    /\ last_op' = NoOp
    /\ UNCHANGED << fhir_vars, search_text, custom_columns, sort_by, sort_ascending,
                    column_search_text, column_category_filter, drag_state, detail >>

\* onmouseup of the drag handle of header i: the button is released over a handle.
HandleMouseUp(i) ==
    /\ mouse = "down"
    /\ i \in HeaderPositions
    /\ drag_state' = DragNone
    /\ mouse' = "up"
    /\ press' = NoPress
    /\ last_op' = NoOp
    /\ UNCHANGED << fhir_vars, search_text, custom_columns, sort_by, sort_ascending,
                    column_search_text, column_category_filter, detail >>

\* The button is released anywhere else: onmouseup is registered on the drag
\* handles only, so no handler runs.
MouseUpElsewhere ==
    /\ mouse = "down"
    /\ mouse' = "up"
    /\ press' = NoPress
    /\ last_op' = NoOp
    /\ UNCHANGED << fhir_vars, search_text, custom_columns, sort_by, sort_ascending,
                    column_search_text, column_category_filter, drag_state, detail >>

\* ondragstart of header i: the browser starts a drag of the header the button
\* went down on (the header is draggable, or selected header text is dragged).
DragStart(i) ==
    /\ mouse = "down"
    /\ i \in HeaderPositions
    /\ press.col = i
    /\ drag_state' = IF drag_state = Mousedown(i) THEN Dragging(i) ELSE drag_state
    /\ mouse' = "drag"
    /\ last_op' = NoOp
    /\ UNCHANGED << fhir_vars, search_text, custom_columns, sort_by, sort_ascending,
                    column_search_text, column_category_filter, press, detail >>

\* The condition under which the drop zone of gap i is rendered.
is_drop_zone_not_dragged_only(i, dragged_index) == i # dragged_index

is_drop_zone(i, dragged_index) == i # dragged_index /\ i # dragged_index + 1

\* The gaps that have a drop zone in the current render.
DropZones ==
    IF drag_state.kind \in {"Dragging", "Dragover"}
    THEN {i \in 0..Len(custom_columns) : is_drop_zone(i, drag_state.dragged)}
    ELSE {}

\* ondragover of the drop zone of gap i.
DragOver(i) ==
    /\ mouse = "drag"
    /\ i \in DropZones
    /\ drag_state' = IF drag_state # Dragover(drag_state.dragged, i)
                     THEN Dragover(drag_state.dragged, i)
                     ELSE drag_state
    /\ last_op' = NoOp
    /\ UNCHANGED << fhir_vars, search_text, custom_columns, sort_by, sort_ascending,
                    column_search_text, column_category_filter, mouse, press, detail >>

\* ondragleave of the drop zone of gap i, fired for the gap the pointer was over.
DragLeave(i) ==
    /\ mouse = "drag"
    /\ i \in DropZones
    /\ drag_state.kind = "Dragover" /\ drag_state.over = i
    /\ drag_state' = Dragging(drag_state.dragged)
    /\ last_op' = NoOp
    /\ UNCHANGED << fhir_vars, search_text, custom_columns, sort_by, sort_ascending,
                    column_search_text, column_category_filter, mouse, press, detail >>

\* The index at which ondrop reinserts the removed column.
drop_insert_at_any_later_gap(i, dragged_index) == IF i > 0 THEN i - 1 ELSE i

drop_insert_at(i, dragged_index) == IF i > dragged_index THEN i - 1 ELSE i

\* ondrop of the drop zone of gap i.
Drop(i) ==
    LET dragged_index == drag_state.dragged
        col == custom_columns[dragged_index + 1]
    IN  /\ mouse = "drag"
        /\ i \in DropZones
        /\ drag_state.kind = "Dragover" => drag_state.over = i
        /\ dragged_index < Len(custom_columns)
        /\ custom_columns' = insert_at_index(remove_at(custom_columns, dragged_index),
                                             drop_insert_at(i, dragged_index), col)
        /\ mouse' = "dropped"
        /\ last_op' = Op("drop", dragged_index, i, custom_columns)
        /\ UNCHANGED << fhir_vars, search_text, sort_by, sort_ascending, column_search_text,
                        column_category_filter, drag_state, press, detail >>

\* ondragend of the dragged header: the browser ends the drag, after a drop or
\* after a release outside every drop zone.
DragEnd ==
    /\ mouse \in {"drag", "dropped"}
    /\ drag_state' = DragNone
    /\ mouse' = "up"
    /\ press' = NoPress
    /\ last_op' = NoOp
    /\ UNCHANGED << fhir_vars, search_text, custom_columns, sort_by, sort_ascending,
                    column_search_text, column_category_filter, detail >>

\* ------------------------------------------------------------- row detail
\* The value the detail button of the row at display position k passes on.
ondetail_argument_display_position(k) == k - 1

ondetail_argument(k) == filtered_data[k].id

\* onclick of the detail button of the k-th displayed row (k from 1):
\* ondetail(id), which PatientTable answers by navigating to the patient.
Detail(k) ==
    /\ Clickable
    /\ k \in 1..Len(filtered_data)
    /\ detail' = [called |-> TRUE, id |-> ondetail_argument(k),
                  cells |-> filtered_data[k].cells, position |-> k - 1]
    /\ last_op' = NoOp
    /\ UNCHANGED << fhir_vars, search_text, custom_columns, sort_by, sort_ascending,
                    column_search_text, column_category_filter, drag_state,
                    mouse, press >>

\* Navigating back to the patient list mounts a new Table: every signal is
\* initialised again.
Remount ==
    /\ detail.called
    /\ search_text' = <<>>
    /\ custom_columns' = default_columns
    /\ sort_by' = columns[1].name
    /\ sort_ascending' = TRUE
    /\ column_search_text' = [c \in 1..NumColumns |-> <<>>]
    /\ column_category_filter' = [c \in 1..NumColumns |-> {}]
    /\ drag_state' = DragNone
    /\ mouse' = "up"
    /\ press' = NoPress
    /\ last_op' = NoOp
    /\ detail' = NoDetail
    /\ UNCHANGED fhir_vars

\* The handlers of search, sort, filters, column visibility and row detail.
NextFilter ==
    \/ \E text \in SearchInputs : SetSearchText(text)
    \/ \E c \in 0..(NumColumns - 1) : ToggleColumn(c)
    \/ ResetColumns
    \/ \E i \in 0..(NumColumns - 1) : SortClick(i)
    \/ \E i \in 0..(NumColumns - 1), text \in FilterInputs : SetColumnFilter(i, text)
    \/ \E i \in 0..(NumColumns - 1), value \in {female, male} : ToggleCategory(i, value)
    \/ \E i \in 0..(NumColumns - 1) : ResetFilter(i)
    \/ \E k \in 1..Len(data) : Detail(k)
    \/ Remount

\* The handlers of column visibility and of the drag and drop of headers.
NextDrag ==
    \/ \E c \in 0..(NumColumns - 1) : ToggleColumn(c)
    \/ ResetColumns
    \/ \E i \in 0..(NumColumns - 1) : HandleMouseDown(i)
    \/ \E i \in 0..(NumColumns - 1) : HeaderTextMouseDown(i)
    \/ \E i \in 0..(NumColumns - 1) : HandleMouseUp(i)
    \/ MouseUpElsewhere
    \/ \E i \in 0..(NumColumns - 1) : DragStart(i)
    \/ \E i \in 0..NumColumns : DragOver(i)
    \/ \E i \in 0..NumColumns : DragLeave(i)
    \/ \E i \in 0..NumColumns : Drop(i)
    \/ DragEnd

Next == NextFilter \/ NextDrag \/ NextPatient \/ NextConcept \/ NextNavigate

\* The whole table.
Spec == Init /\ [][Next]_vars

\* The drag and drop machine and the column visibility, the other signals at
\* their initial values.
SpecDrag == Init /\ [][NextDrag]_vars

\* Every duplicate-free list of column names: the values custom_columns takes
\* under SpecDrag (toggles and drops reach each of them).
RECURSIVE Arrangements(_)
Arrangements(names) ==
    {<<>>} \cup UNION {{<<n>> \o rest : rest \in Arrangements(names \ {n})} : n \in names}

\* The table after the user has arranged the columns and released the mouse.
InitFilter ==
    /\ search_text = <<>>
    /\ custom_columns \in Arrangements({columns[k].name : k \in 1..NumColumns})
    /\ sort_by = columns[1].name
    /\ sort_ascending = TRUE
    /\ column_search_text = [c \in 1..NumColumns |-> <<>>]
    /\ column_category_filter = [c \in 1..NumColumns |-> {}]
    /\ drag_state = DragNone
    /\ mouse = "up"
    /\ press = NoPress
    /\ last_op = NoOp
    /\ detail = NoDetail
    /\ FhirIdle

\* Search, sort, filters, column visibility and row detail, from every
\* arrangement of the columns.
SpecFilter == InitFilter /\ [][NextFilter]_vars

\* PatientView alone: the patients opened one after the other.
SpecPatient == Init /\ [][NextPatient]_vars

\* The router and the futures of the two views.
SpecNavigate == Init /\ [][NextNavigate]_vars

\* The operations on one CodeableConcept.
SpecConcept == Init /\ [][NextConcept]_vars


\* ------------------------------------------------------ properties: helpers
\* The ids of the displayed rows.
DisplayedIds == LET d == filtered_data IN {d[k].id : k \in 1..Len(d)}

\* The cells of data[id] in the visible columns, in display order.
VisibleCells(id) ==
    [m \in 1..Len(custom_columns) |->
        data[id + 1][column_position(custom_columns[m]) + 1]]

\* Two characters that are the same letter, whatever their case.
SameLetter(x, y) ==
    \/ x = y
    \/ \E n \in 1..Len(UpperChars) :
          {x, y} = {UpperChars[n], LowerChars[n]}

\* pat occurs in s when case is ignored.
ContainsIgnoringCase(s, pat) ==
    \E k \in 0..(Len(s) - Len(pat)) :
        \A m \in 1..Len(pat) : SameLetter(s[k + m], pat[m])

\* pat occurs in s literally.
ContainsLiterally(s, pat) ==
    \E k \in 0..(Len(s) - Len(pat)) :
        \A m \in 1..Len(pat) : s[k + m] = pat[m]

NoColumnFilters ==
    \A c \in 1..NumColumns :
        column_search_text[c] = <<>> /\ column_category_filter[c] = {}

PassesGlobalSearch(row) ==
    \E c \in 1..Len(row) : ContainsIgnoringCase(row[c], search_text)

\* vec lists its columns in the order of the full column list.
InColumnOrder(vec) ==
    \A a, b \in 1..Len(vec) :
        a < b => column_position(vec[a]) < column_position(vec[b])

Without(vec, name) == SelectSeq(vec, LAMBDA h : h # name)
Names(vec) == {vec[k] : k \in 1..Len(vec)}

\* ------------------------------------------------------------------ claims
\* C1: for every displayed row, and for the row whose detail button was
\* clicked, the id handed to ondetail is the row's index in data and the cells
\* shown are those of data[id] in the visible columns.
C1_DetailPassesOriginalIndex ==
    LET shown == filtered_data
    IN  /\ \A k \in 1..Len(shown) :
              /\ shown[k].id \in 0..(Len(data) - 1)
              /\ shown[k].cells = VisibleCells(shown[k].id)
        /\ detail.called =>
              /\ detail.id \in 0..(Len(data) - 1)
              /\ detail.cells = VisibleCells(detail.id)
              /\ detail.cells = shown[detail.position + 1].cells

\* C1 witness: a detail click on a row whose display position differs from its
\* index in data, with a search text set and the columns reordered.
C1_Witness ==
    /\ detail.called
    /\ detail.id # detail.position
    /\ search_text # <<>>
    /\ ~InColumnOrder(custom_columns)
    /\ Len(custom_columns) = NumColumns

\* C2: a drop on gap j while the column at position i is dragged puts that
\* column at index j if j < i, else j-1, and leaves the other columns in their
\* previous relative order; [A,B,C] with i=0, j=2 becomes [B,A,C].
C2_DropReinsertsAtAdjustedIndex ==
    last_op.op = "drop" =>
        LET before == last_op.before
            i == last_op.i
            j == last_op.j
            target == IF j < i THEN j ELSE j - 1
            moved == before[i + 1]
        IN  /\ Len(custom_columns) = Len(before)
            /\ custom_columns[target + 1] = moved
            /\ Without(custom_columns, moved) = Without(before, moved)
            /\ (before = <<"Name", "Gender", "Birth Date">> /\ i = 0 /\ j = 2)
                  => custom_columns = <<"Gender", "Name", "Birth Date">>

\* C2 witness: the example of the claim, a drop of the first of three columns
\* on gap 2.
C2_Witness ==
    /\ last_op.op = "drop"
    /\ last_op.before = <<"Name", "Gender", "Birth Date">>
    /\ last_op.i = 0
    /\ last_op.j = 2

\* C3 (as claimed): whenever a column is being dragged, the drag originates
\* from a press on the drag handle of that very column.
C3_DragOnlyFromHandle ==
    drag_state.kind \in {"Dragging", "Dragover"} =>
        press.origin = "handle" /\ press.col = drag_state.dragged

\* C4 (as claimed): with the mouse button released and no drag in progress the
\* drag state is Idle.
C4_ReleaseReturnsToIdle ==
    mouse = "up" => drag_state = DragNone

\* C5 (as claimed): once a drop has reordered the columns the drag state is Idle.
C5_DropReturnsToIdle ==
    last_op.op = "drop" => drag_state = DragNone

\* C6: while the column at position i is dragged, gaps i and i+1 are never the
\* hovered gap and never the gap of a drop.
C6_AdjacentGapsAreNoTargets ==
    /\ drag_state.kind = "Dragover" =>
          drag_state.over \notin {drag_state.dragged, drag_state.dragged + 1}
    /\ last_op.op = "drop" => last_op.j \notin {last_op.i, last_op.i + 1}

\* C6 witness: the middle one of three columns is dragged over a gap (only the
\* outer gaps 0 and 3 are targets).
C6_Witness ==
    /\ drag_state.kind = "Dragover"
    /\ drag_state.dragged = 1
    /\ Len(custom_columns) = 3

\* What a toggle does to the set of visible columns, and to the others' order.
ToggleSetEffect ==
    LET name == columns[last_op.i + 1].name
        before == last_op.before
    IN  /\ Names(custom_columns) =
              IF name \in Names(before) THEN Names(before) \ {name}
                                         ELSE Names(before) \cup {name}
        /\ Without(custom_columns, name) = Without(before, name)
        /\ Len(custom_columns) = Cardinality(Names(custom_columns))

\* C7 (as claimed): after a toggle the visible columns are in the order of the
\* full column list, whatever operations came before.
C7_ToggleKeepsColumnOrder ==
    last_op.op = "toggle" => ToggleSetEffect /\ InColumnOrder(custom_columns)

\* C7 (amended): a toggle removes the column if visible and otherwise inserts
\* it, the other columns keep their order, and visible columns that were in
\* the order of the full column list before the toggle are so after it.
C7_ToggleKeepsColumnOrderIfOrdered ==
    last_op.op = "toggle" =>
        /\ ToggleSetEffect
        /\ InColumnOrder(last_op.before) => InColumnOrder(custom_columns)

\* C7 witness: a column is toggled on and lands in front of a visible column
\* that follows it in the full column list.
C7_Witness ==
    /\ last_op.op = "toggle"
    /\ last_op.before = <<"Birth Date">>
    /\ custom_columns = <<"Gender", "Birth Date">>

\* C8: with no per-column filter set, a row is displayed iff one of its cells
\* contains the search text when case is ignored; the row of Jane Doe is shown
\* for "jane" and hidden for "xyz".
C8_GlobalSearchIgnoresCase ==
    NoColumnFilters =>
        LET shown == DisplayedIds
        IN  /\ \A r \in 1..Len(data) :
                  (r - 1) \in shown <=> PassesGlobalSearch(data[r])
            /\ search_text = <<"j","a","n","e">> => 0 \in shown
            /\ search_text = <<"x","y","z">> => 0 \notin shown

\* C8 witness: the search "jane" shows Jane Doe and MARY JANE and hides Adam Roe.
C8_Witness ==
    /\ NoColumnFilters
    /\ search_text = <<"j","a","n","e">>
    /\ DisplayedIds = {0, 2}

\* The per-column condition of C9, with the text comparison as a parameter.
ColumnsAccept(row, Contains(_, _)) ==
    \A c \in 1..NumColumns :
        \/ (column_search_text[c] = <<>> /\ column_category_filter[c] = {})
        \/ (column_search_text[c] # <<>> /\ Contains(row[c], column_search_text[c]))
        \/ (column_category_filter[c] # {} /\ row[c] \in column_category_filter[c])

\* C9 (as claimed): a row that passes the global search is displayed iff every
\* column has no filter, or a text filter the cell contains, or a categorical
\* filter the cell is a member of.
C9_ColumnFilters ==
    LET shown == DisplayedIds
    IN  \A r \in 1..Len(data) :
            PassesGlobalSearch(data[r]) =>
                ((r - 1) \in shown <=> ColumnsAccept(data[r], ContainsLiterally))

\* C9 (amended): the same, the cell containing the text filter when case is
\* ignored.
C9_ColumnFiltersIgnoringCase ==
    LET shown == DisplayedIds
    IN  \A r \in 1..Len(data) :
            PassesGlobalSearch(data[r]) =>
                ((r - 1) \in shown <=> ColumnsAccept(data[r], ContainsIgnoringCase))

\* C9 witness: a text filter on one column and a categorical filter on
\* another; MARY JANE passes both, Jane Doe fails the text filter.
C9_Witness ==
    /\ search_text = <<>>
    /\ column_search_text[1] = <<"M","a">>
    /\ column_category_filter[2] = {female}
    /\ DisplayedIds = {2}

\* C10 (as claimed): no displayed row has a cell outside a column's non-empty
\* categorical filter.
C10_CategoryFilterExcludes ==
    LET shown == DisplayedIds
    IN  \A c \in 1..NumColumns :
            column_category_filter[c] # {} =>
                \A id \in shown : data[id + 1][c] \in column_category_filter[c]

\* C10 (amended): no displayed row has a cell outside a column's non-empty
\* categorical filter, provided the text filter of that same column is empty.
C10_CategoryFilterExcludesWithoutText ==
    LET shown == DisplayedIds
    IN  \A c \in 1..NumColumns :
            (column_category_filter[c] # {} /\ column_search_text[c] = <<>>) =>
                \A id \in shown : data[id + 1][c] \in column_category_filter[c]

\* C10 witness: gender = {female} and no text filter; the two female rows are
\* displayed and the male row is not.
C10_Witness ==
    /\ column_category_filter[2] = {female}
    /\ column_search_text[2] = <<>>
    /\ column_search_text[3] = <<>>
    /\ column_search_text[1] = <<>>
    /\ search_text = <<>>
    /\ DisplayedIds = {0, 2}

\* C11: the sort starts on the first column of the full list, ascending; a
\* click on the sort control of the current sort column flips the direction and
\* keeps the column; a click on the sort control of any other column makes it
\* the sort column and the direction ascending, whatever it was.
C11_SortClickTogglesOrSwitches ==
    /\ (sort_by = columns[1].name /\ sort_ascending = TRUE)
    /\ [][\A i \in 0..(NumColumns - 1) :
            SortClick(i) =>
                IF custom_columns[i + 1] = sort_by
                THEN sort_by' = sort_by /\ sort_ascending' = ~sort_ascending
                ELSE sort_by' = custom_columns[i + 1] /\ sort_ascending' = TRUE]_vars

\* C11 witness: the sort column is no longer the first column and the direction
\* is descending: the user switched to the column and clicked it again.
C11_Witness ==
    /\ sort_by = columns[3].name
    /\ sort_ascending = FALSE

\* C12: two displayed rows with equal cells in the sort column are displayed in
\* the order they have in data, in both sort directions.
C12_TiesKeepDataOrder ==
    LET d == filtered_data
    IN  \A k \in 1..Len(d) : \A m \in (k + 1)..Len(d) :
            sort_key(data[d[k].id + 1]) = sort_key(data[d[m].id + 1])
                => d[k].id < d[m].id

\* ------------------------------------------- properties of PatientView: helpers
\* The future has resolved to Ok((patient, bundle)).
Loaded == patient_details # None /\ unwrap(patient_details).is_ok

LoadedBundle == unwrap(patient_details).value.bundle

\* The rendered timeline and its cards, top to bottom.
Timeline == PatientView.timeline

Cards == SelectSeq(Timeline, LAMBDA x : x.kind = "card")

\* The resource is one of the four clinical kinds and carries the time its kind
\* is placed by: an Encounter its period.start, a Procedure its
\* performedPeriod.start or performedDateTime, a Condition its recordedDate, an
\* Observation its effectiveDateTime.
HasTimelineTime(resource) ==
    \/ resource.variant \in {"Condition", "Observation"}
    \/ /\ resource.variant = "Encounter"
       /\ resource.period # None
       /\ resource.period[1].start # None
    \/ /\ resource.variant = "Procedure"
       /\ \/ resource.performed_date_time # None
          \/ resource.performed_period # None /\ resource.performed_period[1].start # None

\* That time.
TimeOf(resource) ==
    CASE resource.variant = "Condition" -> resource.recorded_date
      [] resource.variant = "Observation" -> resource.effective_date_time
      [] resource.variant = "Encounter" -> resource.period[1].start[1]
      [] resource.variant = "Procedure" ->
            IF resource.performed_period # None /\ resource.performed_period[1].start # None
            THEN resource.performed_period[1].start[1]
            ELSE resource.performed_date_time[1]

\* The time of the bundle entry a card shows.
CardTime(card) == TimeOf(LoadedBundle.entry[card.index + 1].resource)

\* C13: the cards of the timeline are the bundle's entries that have a
\* timestamp, each of them once; they are in non-decreasing order of timestamp,
\* and cards with equal timestamps are in bundle order.
C13_TimelineIsStableSortOfTimedEntries ==
    Loaded =>
        LET cards == Cards
            entry == LoadedBundle.entry
        IN  /\ \A k \in 1..Len(entry) :
                  Cardinality({p \in 1..Len(cards) : cards[p].index = k - 1})
                      = IF HasTimelineTime(entry[k].resource) THEN 1 ELSE 0
            /\ \A p \in 1..Len(cards) : cards[p].index \in 0..(Len(entry) - 1)
            /\ \A p \in 1..Len(cards) : \A q \in (p + 1)..Len(cards) :
                  /\ CardTime(cards[p]) <= CardTime(cards[q])
                  /\ CardTime(cards[p]) = CardTime(cards[q])
                        => cards[p].index < cards[q].index

\* C13 witness: a loaded bundle of three entries, two of them with the same
\* timestamp, shown as two cards.
C13_Witness ==
    /\ Loaded
    /\ Len(LoadedBundle.entry) = 3
    /\ Len(Cards) = 2
    /\ CardTime(Cards[1]) = CardTime(Cards[2])

\* C14: a bundle entry has a card in the timeline exactly if its resource is an
\* Encounter, Condition, Procedure or Observation that carries its time; a
\* Patient, an Unknown, an Encounter without period.start and a Procedure
\* without a performed time have none.
C14_CardIffClinicalWithTime ==
    Loaded =>
        LET timeline == Timeline
            entry == LoadedBundle.entry
        IN  \A k \in 1..Len(entry) :
                (\E p \in 1..Len(timeline) :
                    timeline[p].kind = "card" /\ timeline[p].index = k - 1)
                <=> HasTimelineTime(entry[k].resource)

\* C14 witness: a loaded bundle with an Encounter that has no period.start and
\* one card, which is not the Encounter's.
C14_Witness ==
    /\ Loaded
    /\ \E k \in 1..Len(LoadedBundle.entry) :
          /\ LoadedBundle.entry[k].resource.variant = "Encounter"
          /\ ~HasTimelineTime(LoadedBundle.entry[k].resource)
    /\ Len(Cards) = 1
    /\ Cards[1].variant # "Encounter"

\* C15: a day heading stands only between two cards, the later one on a later
\* local date than the earlier one; two cards that follow each other directly
\* are not on a later date; nothing follows the last card.
C15_DayHeadingOnlyBetweenDays ==
    Loaded =>
        LET timeline == Timeline
        IN  /\ \A p \in 1..Len(timeline) :
                  timeline[p].kind = "heading" =>
                      /\ p > 1 /\ p < Len(timeline)
                      /\ timeline[p - 1].kind = "card"
                      /\ timeline[p + 1].kind = "card"
                      /\ local_date(CardTime(timeline[p + 1]))
                            > local_date(CardTime(timeline[p - 1]))
                      /\ timeline[p].date = local_date(CardTime(timeline[p + 1]))
            /\ \A p \in 1..(Len(timeline) - 1) :
                  (timeline[p].kind = "card" /\ timeline[p + 1].kind = "card") =>
                      ~(local_date(CardTime(timeline[p + 1]))
                            > local_date(CardTime(timeline[p])))
            /\ timeline # <<>> => timeline[1].kind = "card"

\* C15 witness: two cards on different days with the heading between them; the
\* pair (last, first) that closes the circle has different dates as well.
C15_Witness ==
    /\ Loaded
    /\ Len(Timeline) = 3
    /\ Timeline[1].kind = "card"
    /\ Timeline[2].kind = "heading"
    /\ Timeline[3].kind = "card"

\* ------------------------------------ properties of CodeableConcept: helpers
\* The codings of the concept in view, none for a null list.
Codings == IF codeable_concept.coding = None THEN <<>> ELSE codeable_concept.coding[1]

\* A coding's display, or else its code, or else nothing.
DisplayOrCode(coding) ==
    IF coding.display # None THEN coding.display[1]
    ELSE IF coding.code # None THEN coding.code[1]
    ELSE <<>>

\* The display-or-code values of the first n codings, ", " between them.
RECURSIVE JoinedDisplays(_)
JoinedDisplays(n) ==
    IF n = 0 THEN <<>>
    ELSE IF n = 1 THEN DisplayOrCode(Codings[1])
    ELSE JoinedDisplays(n - 1) \o <<",", " ">> \o DisplayOrCode(Codings[n])

\* C16: code_in_system(system) gives the code of the first coding, in list
\* order, whose system is the argument, and nothing when no coding has that
\* system, the list is empty or the list is null.
C16_CodeInSystemFirstMatch ==
    concept_out.op = "code_in_system" =>
        LET matching == {k \in 1..Len(Codings) :
                            Codings[k].system = <<concept_out.system>>}
        IN  IF matching = {}
            THEN concept_out.value = None
            ELSE \E k \in matching :
                    /\ \A m \in matching : k <= m
                    /\ concept_out.value = Codings[k].code

\* C16 witness: two codings of the system asked for, with different codes; the
\* code of the first is returned.
C16_Witness ==
    /\ concept_out.op = "code_in_system"
    /\ Len(Codings) = 2
    /\ Codings[1].system = <<concept_out.system>>
    /\ Codings[2].system = <<concept_out.system>>
    /\ Codings[1].code # None
    /\ Codings[2].code # None
    /\ Codings[1].code # Codings[2].code
    /\ concept_out.value = Codings[1].code

\* C17: the string displayed for a CodeableConcept, by to_string and by the
\* component, is its text when it has one, and otherwise the display-or-code
\* values of its codings joined by ", " in coding order.
C17_DisplayIsTextOrJoinedCodings ==
    LET expected == IF codeable_concept.text # None
                    THEN codeable_concept.text[1]
                    ELSE JoinedDisplays(Len(Codings))
    IN  /\ concept_out.op = "to_string" => concept_out.value = expected
        /\ concept_out.op = "component" => concept_out.value.text = expected

\* ------------------------------------- properties of the bundle load: helpers
\* The server answered with a bundle and the future has resolved.
BundleAnswered == server_response.kind = "bundle" /\ patient_details # None

Recognized(json) ==
    json.resourceType \in {"Patient", "Encounter", "Condition", "Procedure", "Observation"}

\* The entry has the fields its resource type requires.
WellFormed(json) ==
    /\ json.resourceType = "Condition" => json.recordedDate # None
    /\ json.resourceType = "Observation" => json.effectiveDateTime # None

PatientPositions ==
    {k \in 1..Len(server_response.body) : server_response.body[k].resourceType = "Patient"}

C19_UnrecognizedBecomesUnknown ==
    BundleAnswered =>
        LET result == patient_details[1]
            body == server_response.body
        IN  /\ (~result.is_ok /\ result.error = "error decoding response body")
                   <=> \E k \in 1..Len(body) : Recognized(body[k]) /\ ~WellFormed(body[k])
            /\ result.is_ok =>
                   LET entry == result.value.bundle.entry
                   IN  /\ Len(entry) = Len(body)
                       /\ \A k \in 1..Len(body) :
                             IF Recognized(body[k])
                             THEN entry[k].resource.variant = body[k].resourceType
                             ELSE entry[k].resource.variant = "Unknown"

\* C19 witness: a bundle of three entries, one of an unrecognized type, is
\* loaded: one Unknown and two typed resources.
C19_Witness ==
    /\ BundleAnswered
    /\ patient_details[1].is_ok
    /\ Len(server_response.body) = 3
    /\ Cardinality({k \in 1..3 : ~Recognized(server_response.body[k])}) = 1
    /\ Cardinality({k \in 1..3 :
          patient_details[1].value.bundle.entry[k].resource.variant = "Unknown"}) = 1

\* C20: an entry of a recognized type that lacks a required field does not
\* abort the load: a bundle with a Patient is loaded and the well-formed
\* entries that carry a time are rendered.
C20_MalformedEntryDoesNotAbort ==
    (BundleAnswered /\ PatientPositions # {}) =>
        /\ patient_details[1].is_ok
        /\ \A k \in 1..Len(server_response.body) :
              LET json == server_response.body[k]
              IN  (Recognized(json) /\ WellFormed(json)
                      /\ HasTimelineTime(deserialize_resource(json).value))
                  => \E p \in 1..Len(Timeline) :
                        Timeline[p].kind = "card" /\ Timeline[p].index = k - 1

\* ---------------------------------------------- column order: more properties
\* C27: visibleColumns always holds names of the full column list, none of
\* them twice; a drop changes the order of visibleColumns only: the same
\* names are visible, and the filters and the sort state are as before.
C27_ColumnsDistinctAndDropOnlyReorders ==
    /\ [](/\ Names(custom_columns) \subseteq {columns[k].name : k \in 1..NumColumns}
          /\ Len(custom_columns) = Cardinality(Names(custom_columns)))
    /\ [][\A i \in 0..NumColumns :
            Drop(i) =>
                /\ Names(custom_columns') = Names(custom_columns)
                /\ Len(custom_columns') = Len(custom_columns)
                /\ column_search_text' = column_search_text
                /\ column_category_filter' = column_category_filter
                /\ sort_by' = sort_by /\ sort_ascending' = sort_ascending
                /\ search_text' = search_text]_vars

\* C27 witness: a drop has changed the order of three visible columns.
C27_Witness ==
    /\ last_op.op = "drop"
    /\ Len(last_op.before) = 3
    /\ custom_columns # last_op.before
    /\ Names(custom_columns) = Names(last_op.before)

\* C28: while a column is dragged its index is a position of visibleColumns,
\* and the gap the pointer is over is one of the gaps 0..length other than the
\* two next to the dragged column, so that the removal and the insertion of a
\* drop are in range.
C28_DragIndicesInRange ==
    /\ drag_state.kind \in {"Dragging", "Dragover"} =>
          drag_state.dragged \in 0..(Len(custom_columns) - 1)
    /\ drag_state.kind = "Dragover" =>
          /\ drag_state.over \in 0..Len(custom_columns)
          /\ drag_state.over \notin {drag_state.dragged, drag_state.dragged + 1}
          /\ drop_insert_at(drag_state.over, drag_state.dragged)
                \in 0..(Len(custom_columns) - 1)

\* C28 witness: the last of three visible columns is dragged over the first
\* gap; the third column was made visible by a toggle.
C28_Witness ==
    /\ drag_state = Dragover(2, 0)
    /\ Len(custom_columns) = 3
    /\ mouse = "drag"

\* C30 (as claimed): when a column is toggled on right after it was toggled
\* off, visibleColumns is again what it was before the two toggles.
C30_ToggleOffOnRestores ==
    [][\A c \in 0..(NumColumns - 1) :
        (/\ ToggleColumn(c)
         /\ last_op.op = "toggle" /\ last_op.i = c
         /\ columns[c + 1].name \in Names(last_op.before))
        => custom_columns' = last_op.before]_vars

\* C30 (amended): when a column is toggled on right after it was toggled off,
\* visibleColumns is again what it was before the two toggles, provided it was
\* in the order of the full column list then.
C30_ToggleOffOnRestoresIfOrdered ==
    [][\A c \in 0..(NumColumns - 1) :
        (/\ ToggleColumn(c)
         /\ last_op.op = "toggle" /\ last_op.i = c
         /\ columns[c + 1].name \in Names(last_op.before)
         /\ InColumnOrder(last_op.before))
        => custom_columns' = last_op.before]_vars

\* C30 witness: a column was toggled on and stands between two others, all in
\* the order of the full column list.
C30_Witness ==
    /\ last_op.op = "toggle"
    /\ last_op.before = <<"Name", "Birth Date">>
    /\ custom_columns = <<"Name", "Gender", "Birth Date">>

\* The place in the full column list of the column shown at display position i.
ColumnOfHeader(i) ==
    CHOOSE c \in 1..NumColumns : columns[c].name = custom_columns[i + 1]

\* The filters of every column other than c stay as they are.
OtherFiltersKept(c) ==
    \A d \in 1..NumColumns :
        d # c => /\ column_search_text'[d] = column_search_text[d]
                 /\ column_category_filter'[d] = column_category_filter[d]

\* C29: the filters belong to the column, not to the place where it is
\* displayed: an edit or a reset through a header changes the filter of that
\* header's column and no other, wherever the column is displayed, and every
\* displayed row is accepted by the filter of every column, hidden or visible.
C29_FiltersFollowTheColumn ==
    /\ [](LET shown == DisplayedIds
          IN  \A id \in shown : ColumnsAccept(data[id + 1], ContainsIgnoringCase))
    /\ [][\A i \in 0..(NumColumns - 1) :
            /\ \A text \in FilterInputs :
                  SetColumnFilter(i, text) =>
                      /\ column_search_text'[ColumnOfHeader(i)] = text
                      /\ OtherFiltersKept(ColumnOfHeader(i))
            /\ \A value \in {female, male} :
                  ToggleCategory(i, value) =>
                      /\ column_category_filter'[ColumnOfHeader(i)]
                            # column_category_filter[ColumnOfHeader(i)]
                      /\ OtherFiltersKept(ColumnOfHeader(i))
            /\ ResetFilter(i) =>
                  /\ column_search_text'[ColumnOfHeader(i)] = <<>>
                  /\ column_category_filter'[ColumnOfHeader(i)] = {}
                  /\ OtherFiltersKept(ColumnOfHeader(i))]_vars

\* C29 witness: the Gender column is hidden and displayed in no place, its
\* categorical filter {female} still hides the male row; Birth Date is shown
\* first.
C29_Witness ==
    /\ custom_columns = <<"Birth Date", "Name">>
    /\ column_category_filter[2] = {female}
    /\ column_search_text = <<<<>>, <<>>, <<>>>>
    /\ search_text = <<>>
    /\ DisplayedIds = {0, 2}

\* ------------------------------------------------ the time of a Procedure
\* The Procedure resources of the answered bundle, as the server sent them,
\* with their positions in the bundle.
SentProcedures ==
    {k \in 1..Len(server_response.body) :
        server_response.body[k].resourceType = "Procedure"}

\* The cards of the timeline that show bundle entry k (counted from 1).
CardsOf(k) == {p \in 1..Len(Cards) : Cards[p].index = k - 1}

\* C23: a Procedure is placed on the timeline by performedPeriod.start when it
\* has one, otherwise by performedDateTime, also when performedPeriod is there
\* without a start; it has no timestamp (and no card) only when it has neither.
C23_ProcedureTimeIsPeriodStartElseDateTime ==
    Loaded =>
        \A k \in SentProcedures :
            LET json == server_response.body[k]
                start == IF json.performedPeriod = None THEN None
                         ELSE json.performedPeriod[1].start
            IN  /\ start # None =>
                      /\ CardsOf(k) # {}
                      /\ \A p \in CardsOf(k) : Cards[p].timestamp = start[1]
                /\ (start = None /\ json.performedDateTime # None) =>
                      /\ CardsOf(k) # {}
                      /\ \A p \in CardsOf(k) :
                            Cards[p].timestamp = json.performedDateTime[1]
                /\ (start = None /\ json.performedDateTime = None) <=> CardsOf(k) = {}

\* C23 witness: a loaded bundle with two Procedures that carry a
\* performedDateTime: one with a performedPeriod.start, shown at the start, and
\* one with a performedPeriod without start, shown at its performedDateTime.
C23_Witness ==
    /\ Loaded
    /\ \E k \in SentProcedures :
          /\ server_response.body[k].performedPeriod = Some(Period(Some(1)))
          /\ server_response.body[k].performedDateTime = Some(3)
          /\ \E p \in CardsOf(k) : Cards[p].timestamp = 1
    /\ \E k \in SentProcedures :
          /\ server_response.body[k].performedPeriod = Some(Period(None))
          /\ \E p \in CardsOf(k) : Cards[p].timestamp = 2

\* ------------------------------------------------- the match's last arm
\* C26: whatever the server answers, the match on entry.resource in the
\* timeline loop never takes its last arm: every entry that reaches it is an
\* Encounter, a Condition, a Procedure or an Observation, and each gives a card.
C26_UnreachableArmNeverTaken ==
    Loaded =>
        \A p \in 1..Len(Timeline) :
            /\ Timeline[p].kind \in {"card", "heading"}
            /\ Timeline[p].kind = "card" =>
                  /\ Timeline[p].variant
                        \in {"Encounter", "Condition", "Procedure", "Observation"}
                  /\ LoadedBundle.entry[Timeline[p].index + 1].resource.variant
                        = Timeline[p].variant

\* C26 witness: a loaded bundle of a Patient, a resource of an unknown type and
\* an Observation; the timeline is the Observation's card.
C26_Witness ==
    /\ Loaded
    /\ Len(LoadedBundle.entry) = 3
    /\ \E k \in 1..3 : LoadedBundle.entry[k].resource = Unknown
    /\ \E k \in 1..3 : LoadedBundle.entry[k].resource.variant = "Patient"
    /\ Len(Timeline) = 1
    /\ Timeline[1].kind = "card"
    /\ Timeline[1].variant = "Observation"

\* --------------------------------------------- Condition's clinical status
\* The label of the chip of each code of the value set.
ClinicalStatusLabel ==
    [code \in {<<"active">>, <<"recurrence">>, <<"relapse">>, <<"inactive">>,
               <<"remission">>, <<"resolved">>} |->
        CASE code = <<"active">> -> "Active"
          [] code = <<"recurrence">> -> "Recurrence"
          [] code = <<"relapse">> -> "Relapse"
          [] code = <<"inactive">> -> "Inactive"
          [] code = <<"remission">> -> "Remission"
          [] code = <<"resolved">> -> "Resolved"]

\* The codings of a clinicalStatus, none when it or its coding list is missing.
StatusCodings(clinical_status) ==
    IF clinical_status = None \/ clinical_status[1].coding = None THEN <<>>
    ELSE clinical_status[1].coding[1]

\* C24: the chip of a Condition's clinical status is the chip of the code of
\* the first coding whose system is the condition-clinical code system, when
\* that code is one of the six of the value set; there is no chip when
\* clinicalStatus is missing, when no coding has that system, when that first
\* coding has no code or a code outside the six. Codings of other systems
\* neither produce nor change the chip.
C24_ChipFromFirstClinicalCoding ==
    concept_out.op = "clinical_status_chip" =>
        LET codings == StatusCodings(concept_out.value.clinical_status)
            chip == concept_out.value.chip
            at == {k \in 1..Len(codings) : codings[k].system = Some(ConditionClinical)}
            first == CHOOSE k \in at : \A m \in at : k <= m
            in_system == SelectSeq(codings, LAMBDA c : c.system = Some(ConditionClinical))
        IN  /\ IF at # {} /\ codings[first].code # None
                   /\ codings[first].code[1] \in DOMAIN ClinicalStatusLabel
                THEN /\ chip # None
                     /\ chip[1].text = ClinicalStatusLabel[codings[first].code[1]]
                ELSE chip = None
            /\ chip = clinical_status_chip(
                          Some(CodeableConcept(Some(in_system), None)))

\* C24 witness: a clinicalStatus whose first coding says "resolved" under
\* another system and whose second says "active" under the condition-clinical
\* system gets the chip Active.
C24_Witness ==
    /\ concept_out.op = "clinical_status_chip"
    /\ Len(StatusCodings(concept_out.value.clinical_status)) = 2
    /\ StatusCodings(concept_out.value.clinical_status)[1]
          = Coding(Some(SystemA), Some(<<"resolved">>), None, None)
    /\ StatusCodings(concept_out.value.clinical_status)[2].system = Some(ConditionClinical)
    /\ concept_out.value.chip # None
    /\ concept_out.value.chip[1].text = "Active"

\* ------------------------------------------------- enrichment of a Coding
\* The Coding a RawCoding was converted to.
Enriched == codeable_concept.coding[1][1]

\* C25: the conversion changes the display only of a Coding that came without
\* display and with code and system, and then to the code map's entry for
\* (system, code); a Coding that came with a display keeps it; system, code and
\* userSelected are never changed.
C25_EnrichmentOnlyFillsAbsentDisplay ==
    concept_out.op = "from_raw_coding" =>
        LET raw == concept_out.value.raw
            code_maps == concept_out.value.code_maps
        IN  /\ Enriched.system = raw.system
            /\ Enriched.code = raw.code
            /\ Enriched.user_selected = raw.user_selected
            /\ raw.display # None => Enriched.display = raw.display
            /\ Enriched.display # raw.display =>
                  /\ raw.display = None /\ raw.code # None /\ raw.system # None
                  /\ raw.system[1] \in DOMAIN code_maps
                  /\ raw.code[1] \in DOMAIN code_maps[raw.system[1]]
                  /\ Enriched.display = <<code_maps[raw.system[1]][raw.code[1]]>>

\* ------------------------------------------- the futures of the two views
\* The state of a view's future: pending, failed or succeeded.
FetchState(future) ==
    IF future = None THEN "pending"
    ELSE IF future[1].is_ok THEN "succeeded" ELSE "failed"

\* C21: the mounted view has issued one fetch, and renders by the state of its
\* future: "Loading..." while it is pending, the error message and nothing else
\* when it has failed, the data when it has succeeded. A step that keeps the
\* view mounted issues no fetch: the request and the id it was made for stay
\* what they were, and a future that has resolved, failed or not, stays as it
\* is; only leaving the view ends the failure.
C21_OneFetchAndFailureIsTerminal ==
    /\ [](/\ route.variant = "PatientView" <=> id_signal # None
          /\ route.variant = "PatientView" <=> server_response # NoRequest
          /\ route.variant = "PatientView" =>
                /\ patients = None
                /\ CASE FetchState(patient_details) = "pending" ->
                            PatientView = [kind |-> "loading"]
                     [] FetchState(patient_details) = "failed" ->
                            PatientView = [kind |-> "error",
                                           message |-> patient_details[1].error]
                     [] FetchState(patient_details) = "succeeded" ->
                            /\ PatientView.kind = "details"
                            /\ PatientView.patient = patient_details[1].value.patient
          /\ route.variant = "PatientTable" =>
                /\ patient_details = None
                /\ CASE FetchState(patients) = "pending" ->
                            PatientTable = [kind |-> "loading"]
                     [] FetchState(patients) = "failed" ->
                            PatientTable = [kind |-> "error", message |-> patients[1].error]
                     [] FetchState(patients) = "succeeded" ->
                            PatientTable = [kind |-> "table", data |-> patients[1].value])
    /\ [][/\ (route.variant = "PatientView" /\ route'.variant = "PatientView") =>
                /\ server_response' = server_response
                /\ id_signal' = id_signal
                /\ patient_details # None => patient_details' = patient_details
          /\ (route.variant = "PatientTable" /\ route'.variant = "PatientTable") =>
                (patients # None => patients' = patients)]_vars

\* C21 witness: the FHIR server has answered with a bundle that does not
\* decode; PatientView shows the error.
C21_Witness ==
    /\ route.variant = "PatientView"
    /\ server_response.kind = "bundle"
    /\ FetchState(patient_details) = "failed"
    /\ PatientView = [kind |-> "error", message |-> "error decoding response body"]

\* C22: what PatientView shows under the route of patient P, data or error, is
\* the outcome of the request made for P.
C22_ShownDataIsOfTheRoutesPatient ==
    (route.variant = "PatientView" /\ patient_details # None)
        => id_signal = Some(route.id)

====
